---- MODULE Spec2Model ----
(***************************************************************************)
(* Model of parse_spreadsheets.py (ons-cpi-microdata): find_files, the     *)
(* DataframeParser pipeline (load_df, parse_df, run_shop_code_transition,  *)
(* write_df) and the batch loop of main, with the direct second call of    *)
(* run_shop_code_transition made by concat_2017_thru_2020_spreadsheets.py. *)
(*                                                                         *)
(* A string is a sequence of one-character strings.  A spreadsheet cell    *)
(* that may hold a number (the transition table's columns, and the columns *)
(* that receive its values) is a record [isnum, num, str].                 *)
(* pandas semantics are those of pandas 1.x, the version the code calls    *)
(* (ExcelWriter(options=...)): Series.replace with two list-likes computes *)
(* every mask on the original values and then applies the pairs in order.  *)
(***************************************************************************)
EXTENDS Integers, Sequences, FiniteSets, TLC

VARIABLES pc, files_searched, date_start, date_stop, files_to_clean,
          workbook, df_transition, infile, df, out_file, rerun

vars == <<pc, files_searched, date_start, date_stop, files_to_clean,
          workbook, df_transition, infile, df, out_file, rerun>>

(* ------------------------------ bounds --------------------------------- *)

\* most records in one input file
MaxRows == 2

\* most rows in the transition table
MaxTable == 2

(* ------------------------------ strings -------------------------------- *)

Min(a, b) == IF a <= b THEN a ELSE b

Whitespace == {" ", "\t"}

Digits == <<"0", "1", "2", "3", "4", "5", "6", "7", "8", "9">>

\* s[start:stop] of Python / pandas .str[start:stop], 0-based and half open,
\* both ends clamped to the string's length.
StrSliceShort(s, start, stop) == IF stop <= Len(s) THEN SubSeq(s, start + 1, stop) ELSE <<>>

StrSlice(s, start, stop) == SubSeq(s, Min(start, Len(s)) + 1, Min(stop, Len(s)))

\* the places of s that hold no whitespace
Inked(s) == {i \in DOMAIN s : s[i] \notin Whitespace}

First(S) == CHOOSE i \in S : \A j \in S : i <= j

Last(S) == CHOOSE i \in S : \A j \in S : j <= i

StripLeftOnly(s) == IF Inked(s) = {} THEN <<>> ELSE SubSeq(s, First(Inked(s)), Len(s))

\* str.strip(): s from its first to its last non-whitespace character
Strip(s) == IF Inked(s) = {} THEN <<>> ELSE SubSeq(s, First(Inked(s)), Last(Inked(s)))

(* ------------------------------ parse_df ------------------------------- *)

column_to_str_index_mapping ==
  << [col |-> "quote_date",      start |-> 0,   stop |-> 6],
     [col |-> "item_id",         start |-> 6,   stop |-> 12],
     [col |-> "location",        start |-> 12,  stop |-> 17],
     [col |-> "shop_code",       start |-> 17,  stop |-> 21],
     [col |-> "prod_size",       start |-> 21,  stop |-> 37],
     [col |-> "prod_measure_id", start |-> 37,  stop |-> 39],
     [col |-> "attribute2",      start |-> 39,  stop |-> 119],
     [col |-> "attribute3",      start |-> 119, stop |-> 199],
     [col |-> "attribute4",      start |-> 199, stop |-> 279],
     [col |-> "attribute5",      start |-> 279, stop |-> 359],
     [col |-> "attribute6",      start |-> 359, stop |-> 439] >>

Columns == {column_to_str_index_mapping[i].col : i \in DOMAIN column_to_str_index_mapping}

ColumnRange(c) ==
  LET i == CHOOSE j \in DOMAIN column_to_str_index_mapping :
                column_to_str_index_mapping[j].col = c
  IN  column_to_str_index_mapping[i]

\* one row of df_parsed: for every column, the stripped slice of the record
ParseRecord(r) ==
  [c \in Columns |-> Strip(StrSlice(r, ColumnRange(c).start, ColumnRange(c).stop))]

\* a raw frame has the single column 0
RawFrame(records) == [i \in DOMAIN records |-> [c0 |-> records[i]]]

(* ------------------------------- cells --------------------------------- *)

map_from == "KEY"

map_to == "Shop Code"

new_col_name == "actual shop"

StrCell(s) == [isnum |-> FALSE, num |-> 0, str |-> s]

NumCell(n) == [isnum |-> TRUE, num |-> n, str |-> <<>>]

\* str(n) of a non-negative integer: its decimal digits
RECURSIVE IntToStr(_)
IntToStr(n) == IF n < 10 THEN <<Digits[n + 1]>>
               ELSE IntToStr(n \div 10) \o <<Digits[(n % 10) + 1]>>

\* one element of Series.astype(str)
AsTypeStr(cell) == IF cell.isnum THEN StrCell(IntToStr(cell.num)) ELSE cell

(* ----------------------- run_shop_code_transition ---------------------- *)

RECURSIVE TakeRowsReversed(_, _, _)
TakeRowsReversed(d, keep, i) ==
  IF i > Len(d) THEN <<>>
  ELSE TakeRowsReversed(d, keep, i + 1) \o (IF i \in keep THEN <<d[i]>> ELSE <<>>)

\* the rows of d at the indices in keep, in d's order (df[mask].reset_index)
RECURSIVE TakeRows(_, _, _)
TakeRows(d, keep, i) ==
  IF i > Len(d) THEN <<>>
  ELSE (IF i \in keep THEN <<d[i]>> ELSE <<>>) \o TakeRows(d, keep, i + 1)

SetColumn(row, c, v) == [k \in DOMAIN row \cup {c} |-> IF k = c THEN v ELSE row[k]]

DropColumn(row, c) == [k \in DOMAIN row \ {c} |-> row[k]]

\* item_key_col: shop_code + location + item_id
ItemKey(row) == row["shop_code"] \o row["location"] \o row["item_id"]

shop_code_len == 4

\* _drop_duplicates_on_character_len
DropAnyLength(d) ==
  LET duplicates(i) == \E j \in DOMAIN d : j # i /\ d[j][map_from] = d[i][map_from]
  IN  TakeRows(d, {i \in DOMAIN d : ~duplicates(i)}, 1)

DropDuplicatesOnCharacterLen(d) ==
  LET duplicates(i) == \E j \in DOMAIN d : j # i /\ d[j][map_from] = d[i][map_from]
      shop_code_is_4_chars(i) == Len(d[i]["shop_code"]) = shop_code_len
      mask == {i \in DOMAIN d : ~(duplicates(i) /\ shop_code_is_4_chars(i))}
  IN  TakeRows(d, mask, 1)

CastAllCells(d, c) ==
  [i \in DOMAIN d |->
     [k \in DOMAIN d[i] |->
        IF k \in {map_from, map_to, new_col_name} THEN AsTypeStr(d[i][k]) ELSE d[i][k]]]

\* _cast_columns, on one frame
CastColumn(d, c) == [i \in DOMAIN d |-> SetColumn(d[i], c, AsTypeStr(d[i][c]))]

\* Series.replace(to_replace=list, value=list): pair j replaces, in col, the
\* places where the ORIGINAL column equals to_replace[j]; pairs apply in order.
RECURSIVE ReplaceList(_, _, _, _)
ReplaceList(col, orig, t, j) ==
  IF j > Len(t) THEN col
  ELSE ReplaceList([i \in DOMAIN col |->
                      IF orig[i] = t[j][map_from] THEN t[j][map_to] ELSE col[i]],
                   orig, t, j + 1)

\* _map_shop_codes: the new column starts as the key column and is replaced in
\* place (in pandas 1.x the inplace replace on self.df[col] writes to the frame)
MapKeepExisting(d, t) ==
  LET orig == [i \in DOMAIN d |->
                 IF new_col_name \in DOMAIN d[i] THEN d[i][new_col_name] ELSE d[i][map_from]]
      new  == ReplaceList(orig, orig, t, 1)
  IN  [i \in DOMAIN d |-> SetColumn(d[i], new_col_name, new[i])]

MapShopCodes(d, t) ==
  LET orig == [i \in DOMAIN d |-> d[i][map_from]]
      new  == ReplaceList(orig, orig, t, 1)
  IN  [i \in DOMAIN d |-> SetColumn(d[i], new_col_name, new[i])]

\* _backfill_unmatched_values
BackfillOwnKeyOnly(d) ==
  [i \in DOMAIN d |->
     IF d[i][new_col_name] = d[i][map_from]
     THEN SetColumn(d[i], new_col_name, StrCell(d[i]["shop_code"]))
     ELSE d[i]]

BackfillNothing(d) == d

BackfillUnmatchedValues(d) ==
  LET keys == {d[i][map_from] : i \in DOMAIN d}
      mask == {i \in DOMAIN d : d[i][new_col_name] \in keys}
  IN  [i \in DOMAIN d |->
         IF i \in mask
         THEN SetColumn(d[i], new_col_name, StrCell(d[i]["shop_code"]))
         ELSE d[i]]

(* ------------------------------ find_files ----------------------------- *)

DigitSet == {Digits[i] : i \in DOMAIN Digits}

DigitVal(c) == (CHOOSE i \in DOMAIN Digits : Digits[i] = c) - 1

NoDate == [ok |-> FALSE, y |-> 0, m |-> 0]

\* datetime.datetime.strptime(s, "%Y%m"): %Y is \d\d\d\d, %m is the regex
\* alternation 1[0-2]|0[1-9]|[1-9] tried in that order; text left over after
\* the match, or year 0, raises ValueError (NoDate).
Strptime(s) ==
  IF Len(s) < 5 \/ \E i \in 1..4 : s[i] \notin DigitSet THEN NoDate
  ELSE LET y    == 1000 * DigitVal(s[1]) + 100 * DigitVal(s[2])
                   + 10 * DigitVal(s[3]) + DigitVal(s[4])
           rest == SubSeq(s, 5, Len(s))
           two  == Len(rest) >= 2
           m    == IF two /\ rest[1] = "1" /\ rest[2] \in {"0", "1", "2"}
                     THEN <<10 + DigitVal(rest[2]), 2>>
                   ELSE IF two /\ rest[1] = "0" /\ rest[2] \in DigitSet \ {"0"}
                     THEN <<DigitVal(rest[2]), 2>>
                   ELSE IF rest[1] \in DigitSet \ {"0"}
                     THEN <<DigitVal(rest[1]), 1>>
                   ELSE <<0, 0>>
       IN  IF m[2] = 0 \/ m[2] # Len(rest) \/ y = 0 THEN NoDate
           ELSE [ok |-> TRUE, y |-> y, m |-> m[1]]

\* a <= b on datetimes of the first day of a month
DateLe(a, b) == a.y < b.y \/ (a.y = b.y /\ a.m <= b.m)

\* pathlib's stem: the name up to its last dot, unless that dot is first or last
Stem(name) ==
  LET dots == {i \in DOMAIN name : name[i] = "."}
      last == Last(dots)
  IN  IF dots # {} /\ 1 < last /\ last < Len(name)
      THEN SubSeq(name, 1, last - 1) ELSE name

\* stem.split("_")[-1]
LastPart(stem) ==
  LET us   == {i \in DOMAIN stem : stem[i] = "_"}
      last == Last(us)
  IN  IF us = {} THEN stem ELSE SubSeq(stem, last + 1, Len(stem))

find_files(files, start, stop) ==
  LET chosen(f) == LET date_fmt == Strptime(LastPart(Stem(f)))
                   IN  /\ date_fmt.ok
                       /\ DateLe(start, date_fmt)
                       /\ DateLe(date_fmt, stop)
  IN  SelectSeq(files, chosen)

(* ------------------------------- inputs -------------------------------- *)

PadRight(s, n) == s \o [i \in 1..(n - Len(s)) |-> " "]

\* a record cut after its shop_code field: quote_date, item_id, location, shop_code
MkRecord(shop_code, location, item_id) ==
  IntToStr(201707) \o PadRight(item_id, 6) \o PadRight(location, 5) \o PadRight(shop_code, 4)

\* the records an input file is made of
RecordDomain ==
  { MkRecord(<<"a">>, <<>>, <<>>),
    MkRecord(<<"1">>, <<"1">>, <<>>),
    MkRecord(<<"a", "a", "a", "a">>, <<"1">>, <<>>),
    MkRecord(<<"a", "a", "a", "a">>, <<>>, <<"1">>),
    MkRecord(<<"a", "a", "a">>, <<"a", "1">>, <<>>) }

Infiles == UNION {[1..n -> RecordDomain] : n \in 1..MaxRows}

TransitionRow(k, v) == [c \in {map_from, map_to} |-> IF c = map_from THEN k ELSE v]

\* the rows a transition table is made of
PairDomain ==
  { TransitionRow(StrCell(<<"a">>), StrCell(<<"b">>)),
    TransitionRow(NumCell(11), NumCell(7)),
    TransitionRow(StrCell(<<"1", "1">>), StrCell(<<"c">>)),
    TransitionRow(StrCell(<<"a", "a", "a", "a", "1">>), StrCell(<<"a">>)) }

Tables == UNION {[1..n -> PairDomain] : n \in 0..MaxTable}

FileName(date) == <<"P", "_">> \o date \o <<".", "x">>

\* the names the glob pattern matches in dir_in
DirListing ==
  << FileName(IntToStr(201707)), FileName(IntToStr(202013)),
     FileName(IntToStr(201902)), FileName(IntToStr(201903)) >>

NoFile == [exists |-> FALSE, rows |-> <<>>]

(* ------------------------------- actions ------------------------------- *)

Init ==
  /\ pc = "main"
  /\ files_searched = DirListing
  /\ date_start = IntToStr(201707)
  /\ date_stop = IntToStr(201902)
  /\ files_to_clean = <<>>
  /\ workbook \in Tables
  /\ df_transition = <<>>
  /\ infile = <<>>
  /\ df = <<>>
  /\ out_file = NoFile
  /\ rerun = FALSE

\* main, up to the call of find_files; strptime of a bad --date_start or
\* --date_stop raises out of main
main_find_files ==
  /\ pc = "main"
  /\ LET start == Strptime(date_start)
         stop  == Strptime(date_stop)
     IN  IF start.ok /\ stop.ok
         THEN /\ files_to_clean' = find_files(files_searched, start, stop)
              /\ pc' = "found"
         ELSE /\ files_to_clean' = files_to_clean
              /\ pc' = "raised"
  /\ UNCHANGED <<files_searched, date_start, date_stop, workbook, df_transition,
                 infile, df, out_file, rerun>>

\* main: read the transition table from the workbook
main_read_transition ==
  /\ pc = "found"
  /\ df_transition' = workbook
  /\ pc' = "loop"
  /\ UNCHANGED <<files_searched, date_start, date_stop, files_to_clean, workbook,
                 infile, df, out_file, rerun>>

\* main's loop: a DataframeParser for the next file (its df is None)
construct_parser ==
  /\ pc = "loop"
  /\ files_to_clean # <<>>
  /\ files_to_clean' = Tail(files_to_clean)
  /\ infile' = <<>>
  /\ df' = <<>>
  /\ out_file' = NoFile
  /\ rerun' = FALSE
  /\ pc' = "constructed"
  /\ UNCHANGED <<files_searched, date_start, date_stop, workbook, df_transition>>

\* run(): load_df(header=None) reads the file's records into column 0
load_df ==
  /\ pc = "constructed"
  /\ \E records \in Infiles :
       /\ infile' = records
       /\ df' = RawFrame(records)
  /\ pc' = "loaded"
  /\ UNCHANGED <<files_searched, date_start, date_stop, files_to_clean, workbook,
                 df_transition, out_file, rerun>>

main_completed ==
  /\ pc = "loop"
  /\ files_to_clean = <<>>
  /\ pc' = "completed"
  /\ UNCHANGED <<files_searched, date_start, date_stop, files_to_clean, workbook,
                 df_transition, infile, df, out_file, rerun>>

parse_df ==
  /\ pc = "loaded"
  /\ df' = [i \in DOMAIN df |-> ParseRecord(df[i].c0)]
  /\ pc' = "parsed"
  /\ UNCHANGED <<files_searched, date_start, date_stop, files_to_clean, workbook,
                 df_transition, infile, out_file, rerun>>

\* run_shop_code_transition, line by line
item_key_col ==
  /\ pc = "parsed"
  /\ df' = [i \in DOMAIN df |-> SetColumn(df[i], map_from, StrCell(ItemKey(df[i])))]
  /\ pc' = "keyed"
  /\ UNCHANGED <<files_searched, date_start, date_stop, files_to_clean, workbook,
                 df_transition, infile, out_file, rerun>>

drop_duplicates_on_character_len ==
  /\ pc = "keyed"
  /\ df' = DropDuplicatesOnCharacterLen(df)
  /\ pc' = "deduped"
  /\ UNCHANGED <<files_searched, date_start, date_stop, files_to_clean, workbook,
                 df_transition, infile, out_file, rerun>>

cast_columns ==
  /\ pc = "deduped"
  /\ df' = CastColumn(df, map_from)
  /\ df_transition' = CastColumn(df_transition, map_from)
  /\ pc' = "cast"
  /\ UNCHANGED <<files_searched, date_start, date_stop, files_to_clean, workbook,
                 infile, out_file, rerun>>

map_shop_codes ==
  /\ pc = "cast"
  /\ df' = MapShopCodes(df, df_transition)
  /\ pc' = "mapped"
  /\ UNCHANGED <<files_searched, date_start, date_stop, files_to_clean, workbook,
                 df_transition, infile, out_file, rerun>>

backfill_unmatched_values ==
  /\ pc = "mapped"
  /\ df' = BackfillUnmatchedValues(df)
  /\ pc' = "backfilled"
  /\ UNCHANGED <<files_searched, date_start, date_stop, files_to_clean, workbook,
                 df_transition, infile, out_file, rerun>>

drop_key_column ==
  /\ pc = "backfilled"
  /\ df' = [i \in DOMAIN df |-> DropColumn(df[i], map_from)]
  /\ pc' = "transitioned"
  /\ UNCHANGED <<files_searched, date_start, date_stop, files_to_clean, workbook,
                 df_transition, infile, out_file, rerun>>

\* write_df with overwrite=False (the default of --force): an existing
\* output file is left alone.  A file's output path holds nothing before the
\* file's first write.
write_df ==
  /\ pc = "transitioned"
  /\ out_file' = IF out_file.exists THEN out_file ELSE [exists |-> TRUE, rows |-> df]
  /\ pc' = "written"
  /\ UNCHANGED <<files_searched, date_start, date_stop, files_to_clean, workbook,
                 df_transition, infile, df, rerun>>

\* the next file of main's loop
next_file ==
  /\ pc = "written"
  /\ pc' = "loop"
  /\ UNCHANGED <<files_searched, date_start, date_stop, files_to_clean, workbook,
                 df_transition, infile, df, out_file, rerun>>

\* run_shop_code_transition called again on the frame it has reconciled
\* (combine_files calls it directly on a frame it sets), once per file
rerun_shop_code_transition ==
  /\ pc = "written"
  /\ ~rerun
  /\ rerun' = TRUE
  /\ pc' = "parsed"
  /\ UNCHANGED <<files_searched, date_start, date_stop, files_to_clean, workbook,
                 df_transition, infile, df, out_file>>

Next ==
  \/ main_find_files
  \/ main_read_transition
  \/ construct_parser
  \/ load_df
  \/ main_completed
  \/ parse_df
  \/ item_key_col
  \/ drop_duplicates_on_character_len
  \/ cast_columns
  \/ map_shop_codes
  \/ backfill_unmatched_values
  \/ drop_key_column
  \/ write_df
  \/ next_file
  \/ rerun_shop_code_transition

Spec == Init /\ [][Next]_vars

(* ------------------- the pure functions on their own ------------------- *)

\* character i of a record of pattern p
PatChar(p, i) ==
  CASE p = 1 -> "x"
    [] p = 2 -> " "
    [] p = 3 -> IF i % 3 = 0 THEN " " ELSE "a"
    [] p = 4 -> IF i % 7 \in {1, 2} THEN " " ELSE IF i % 7 = 5 THEN "\t" ELSE "b"
    [] OTHER -> IF i % 5 \in {0, 1} THEN " " ELSE "c"

RecordLengths == {1, 6, 7, 13, 18, 20, 21, 30, 38, 40, 120, 200, 438, 439, 440, 450}

LongRecords == {[i \in 1..n |-> PatChar(p, i)] : p \in 1..5, n \in RecordLengths}

\* parse_df applied to one loaded record of any length
InitParse ==
  /\ pc = "loaded"
  /\ files_searched = <<>>
  /\ date_start = IntToStr(201707)
  /\ date_stop = IntToStr(201902)
  /\ files_to_clean = <<>>
  /\ workbook = <<>>
  /\ df_transition = <<>>
  /\ infile \in {<<r>> : r \in LongRecords}
  /\ df = RawFrame(infile)
  /\ out_file = NoFile
  /\ rerun = FALSE

NextParse == parse_df

SpecParse == InitParse /\ [][NextParse]_vars

\* most names the glob pattern matches
MaxFiles == 2

NameDomain ==
  { FileName(IntToStr(201701)), FileName(IntToStr(201707)), FileName(IntToStr(201902)),
    FileName(IntToStr(201903)), FileName(IntToStr(202013)), FileName(IntToStr(201700)),
    FileName(IntToStr(20171)), FileName(IntToStr(2017011)), FileName(<<"x">>),
    FileName(<<"0", "0", "0", "0", "0", "1">>),
    FileName(IntToStr(2013) \o <<"_">> \o IntToStr(201801)),
    IntToStr(201801) \o <<".", "x">> }

DateArgs == {IntToStr(201701), IntToStr(201707), IntToStr(201902), IntToStr(201713)}

\* find_files applied to any listing and any --date_start, --date_stop
InitFind ==
  /\ pc = "main"
  /\ files_searched \in UNION {[1..n -> NameDomain] : n \in 0..MaxFiles}
  /\ date_start \in DateArgs
  /\ date_stop \in DateArgs
  /\ files_to_clean = <<>>
  /\ workbook = <<>>
  /\ df_transition = <<>>
  /\ infile = <<>>
  /\ df = <<>>
  /\ out_file = NoFile
  /\ rerun = FALSE

NextFind == main_find_files

SpecFind == InitFind /\ [][NextFind]_vars

(* ------------------------------- claims -------------------------------- *)

\* the composite key of a row, as the transition table spells keys
ClaimKey(row) == StrCell(row["shop_code"] \o row["location"] \o row["item_id"])

OwnShopCode(row) == StrCell(row["shop_code"])

TableKeys(t) == {t[j][map_from] : j \in DOMAIN t}

KeysUnique(t) == \A j, k \in DOMAIN t : j # k => t[j][map_from] # t[k][map_from]

\* v is s without its leading and trailing whitespace
Trimmed(s, v) ==
  \E a, b \in 0..Len(s) :
    /\ a + b <= Len(s)
    /\ \A k \in 1..a : s[k] \in Whitespace
    /\ \A k \in (Len(s) - b + 1)..Len(s) : s[k] \in Whitespace
    /\ Len(v) = Len(s) - a - b
    /\ \A k \in 1..Len(v) : v[k] = s[a + k]
    /\ v = <<>> \/ (v[1] \notin Whitespace /\ v[Len(v)] \notin Whitespace)

\* the characters of record r at the 0-based places start..stop-1 that exist
Available(r, start, stop) ==
  [k \in 1..(Min(stop, Len(r)) - Min(start, Len(r))) |-> r[start + k]]

\* C1: every surviving row whose composite key is a key of the transition
\* table (keys unique) ends with "actual shop" equal to the table's correct
\* shop code for that key, whatever the other rows of the file are.
C1_MatchedRowGetsTableCode ==
  (pc = "transitioned" /\ KeysUnique(df_transition)) =>
    \A i \in DOMAIN df : \A j \in DOMAIN df_transition :
      df_transition[j][map_from] = ClaimKey(df[i])
        => df[i][new_col_name] = df_transition[j][map_to]

\* C2: every surviving row whose composite key is absent from the transition
\* table's (string-cast) key column ends, without any error, with
\* "actual shop" equal to its own shop_code.
C2_UnmappedRowFallsBack ==
  pc = "transitioned" =>
    \A i \in DOMAIN df :
      ClaimKey(df[i]) \notin TableKeys(df_transition)
        => df[i][new_col_name] = OwnShopCode(df[i])

C2_Witness ==
  /\ pc = "transitioned"
  /\ df_transition # <<>>
  /\ \E i \in DOMAIN df :
       /\ ClaimKey(df[i]) \notin TableKeys(df_transition)
       /\ ClaimKey(df[i]) # OwnShopCode(df[i])
       /\ df[i][new_col_name] = OwnShopCode(df[i])

\* the composite keys of the output rows that no transition-table key matched
NeverReplaced == {ClaimKey(df[k]) : k \in DOMAIN df} \ TableKeys(df_transition)

\* C3 as stated: after run_shop_code_transition no output row's "actual shop"
\* equals a composite key that was never replaced by a transition-table match.
C3_NoRowKeepsRawKey ==
  pc = "transitioned" => \A i \in DOMAIN df : df[i][new_col_name] \notin NeverReplaced

\* C3 amended: an output row's "actual shop" equals a never-replaced composite
\* key of an output row only when that value is the row's own shop_code (a row
\* whose location and item_id are empty has its shop_code as key).
C3_RawKeyOnlyAsOwnShopCode ==
  pc = "transitioned" =>
    \A i \in DOMAIN df :
      df[i][new_col_name] \in NeverReplaced => df[i][new_col_name] = OwnShopCode(df[i])

C3_Witness ==
  /\ pc = "transitioned"
  /\ \E i, k \in DOMAIN df :
       /\ df[i][new_col_name] \in NeverReplaced
       /\ ClaimKey(df[k]) \in TableKeys(df_transition)
       /\ df[k][new_col_name] # OwnShopCode(df[k])

\* the places of frame d that duplicate suppression must drop
MustDrop(d) ==
  {i \in DOMAIN d :
     /\ Cardinality({j \in DOMAIN d : ClaimKey(d[j]) = ClaimKey(d[i])}) >= 2
     /\ Len(d[i]["shop_code"]) = 4}

\* e is d without the places in drop, the other rows in d's order
IsRemainder(e, d, drop) ==
  \E f \in [DOMAIN e -> DOMAIN d] :
    /\ \A a, b \in DOMAIN e : a < b => f[a] < f[b]
    /\ {f[a] : a \in DOMAIN e} = DOMAIN d \ drop
    /\ \A a \in DOMAIN e : e[a] = d[f[a]]

\* C4: duplicate suppression removes exactly the rows whose composite key
\* occurs at least twice and whose shop_code has 4 characters, every
\* occurrence of them, keeps every other row, and runs before the mapping.
C4_DuplicateSuppression ==
  [][ /\ pc = "keyed" => (pc' = "deduped" /\ IsRemainder(df', df, MustDrop(df)))
      /\ pc' = "mapped" => pc = "cast"
      /\ pc' = "cast" => pc = "deduped" ]_vars

C4_Witness ==
  /\ pc = "deduped"
  /\ Len(infile) = 2
  /\ Len(df) = 1
  /\ Len(df[1]["shop_code"]) # 4

\* C5: run_shop_code_transition run again on its own output keeps every row
\* and leaves each row's "actual shop" as the first pass wrote it.
C5_RerunIsNoOp ==
  (rerun /\ pc = "transitioned") =>
    /\ out_file.exists
    /\ Len(df) = Len(out_file.rows)
    /\ \A i \in DOMAIN df : df[i][new_col_name] = out_file.rows[i][new_col_name]

C5_Witness ==
  /\ rerun
  /\ pc = "transitioned"
  /\ Len(df) < Len(infile)
  /\ \E i \in DOMAIN df : df[i][new_col_name] # OwnShopCode(df[i])

\* one whole pass over the records of a file with transition table t
FreshPass(records, t) ==
  LET parsed == [i \in DOMAIN records |-> ParseRecord(records[i])]
      keyed  == [i \in DOMAIN parsed |->
                   SetColumn(parsed[i], map_from, StrCell(ItemKey(parsed[i])))]
      kept   == CastColumn(DropDuplicatesOnCharacterLen(keyed), map_from)
      filled == BackfillUnmatchedValues(MapShopCodes(kept, CastColumn(t, map_from)))
  IN  [i \in DOMAIN filled |-> DropColumn(filled[i], map_from)]

TableLoaded == pc \notin {"main", "found", "raised"}

ElevenFields ==
  {"quote_date", "item_id", "location", "shop_code", "prod_size", "prod_measure_id",
   "attribute2", "attribute3", "attribute4", "attribute5", "attribute6"}

\* C7: for a record of at least 439 characters parse_df gives a row of exactly
\* the 11 fields of the offset table, each the whitespace-trimmed substring
\* record[start:end) of its range.
C7_FullRecordFields ==
  pc = "parsed" =>
    \A i \in DOMAIN df :
      Len(infile[i]) >= 439 =>
        /\ DOMAIN df[i] = ElevenFields
        /\ Cardinality(DOMAIN df[i]) = 11
        /\ \A k \in DOMAIN column_to_str_index_mapping :
             LET m == column_to_str_index_mapping[k]
             IN  Trimmed(SubSeq(infile[i], m.start + 1, m.stop), df[i][m.col])

C7_Witness ==
  /\ pc = "parsed"
  /\ Len(infile[1]) >= 439
  /\ \E k \in DOMAIN column_to_str_index_mapping :
       LET m == column_to_str_index_mapping[k]
       IN  /\ df[1][m.col] # <<>>
           /\ Len(df[1][m.col]) < m.stop - m.start
  /\ df[1]["attribute6"] # <<>>

\* C8: for a record shorter than 439 characters parse_df does not fail: every
\* field is the trimmed part of its range that the record has (empty when the
\* range starts at or past the record's end).
C8_ShortRecordFields ==
  /\ pc = "loaded" => ENABLED parse_df
  /\ pc = "parsed" =>
       \A i \in DOMAIN df :
         Len(infile[i]) < 439 =>
           /\ DOMAIN df[i] = ElevenFields
           /\ \A k \in DOMAIN column_to_str_index_mapping :
                LET m == column_to_str_index_mapping[k]
                IN  /\ Trimmed(Available(infile[i], m.start, m.stop), df[i][m.col])
                    /\ m.start >= Len(infile[i]) => df[i][m.col] = <<>>

C8_Witness ==
  /\ pc = "parsed"
  /\ Len(infile[1]) = 20
  /\ Len(df[1]["shop_code"]) = 3
  /\ df[1]["location"] # <<>>
  /\ df[1]["attribute6"] = <<>>

IsYYYYMM(s) ==
  /\ Len(s) = 6
  /\ \A k \in 1..6 : s[k] \in DigitSet
  /\ \E k \in 1..4 : s[k] # "0"
  /\ 10 * DigitVal(s[5]) + DigitVal(s[6]) \in 1..12

RECURSIVE Decimal(_)
Decimal(s) == IF s = <<>> THEN 0
              ELSE 10 * Decimal(SubSeq(s, 1, Len(s) - 1)) + DigitVal(s[Len(s)])

\* C10: find_files selects a file of the listing if and only if the last
\* underscore-separated part of its stem is a YYYYMM date within
\* [date_start, date_stop]; a file whose suffix is no such date is never
\* selected.
C10_SelectedIffDateInRange ==
  pc = "found" =>
    \A k \in DOMAIN files_searched :
      LET part == LastPart(Stem(files_searched[k]))
      IN  (\E m \in DOMAIN files_to_clean : files_to_clean[m] = files_searched[k])
            <=> /\ IsYYYYMM(part)
                /\ Decimal(date_start) <= Decimal(part)
                /\ Decimal(part) <= Decimal(date_stop)

====
